---- MODULE Spec2Model ----
(***************************************************************************)
(* Model of the PSKT role engine of the Python binding                     *)
(* (src/src/wallet/pskt/mod.rs): the shared, mutex-protected state slot,   *)
(* the role transitions, the role-scoped mutating operations, the          *)
(* serialization pair and calculate_mass.                                  *)
(*                                                                         *)
(* Rust's Option<T> is modelled as a sequence of length 0 (None) or 1      *)
(* (Some(x)), so that `take`, `replace` and `unwrap` read as in the code.  *)
(***************************************************************************)
EXTENDS Integers, Sequences, FiniteSets, TLC

VARIABLES state, last, frozen, th, handles, path

vars == <<state, last, frozen, th, handles, path>>

(* ------------------------------ bounds -------------------------------- *)

MaxInputs == 2
MaxOutputs == 1
MaxMature == 3

(* ------------------------------ Option -------------------------------- *)

None == <<>>
Some(x) == <<x>>
is_some(o) == Len(o) = 1
is_none(o) == Len(o) = 0
unwrap(o) == o[1]

(* ----------------------------- data model ----------------------------- *)

Roles == {"NoOp", "Creator", "Constructor", "Updater", "Signer", "Combiner",
          "Finalizer", "Extractor"}

Outpoints == {1}
SequenceValues == {5}
LockTimes == {7}
OutputValues == {500}
Networks == {"mainnet", "testnet"}
HexStrings == {"deadbeef", "zz"}

\* hex::decode(data) of input_and_redeem_script (hex_decode below).
\*
\* a decoder that lets every string through
hex_decode_lenient(data) ==
    CASE data = "deadbeef" -> [ok |-> TRUE, bytes |-> <<222, 173, 190, 239>>]
      [] OTHER             -> [ok |-> TRUE, bytes |-> <<>>]

hex_decode(data) ==
    CASE data = "deadbeef" -> [ok |-> TRUE, bytes |-> <<222, 173, 190, 239>>]
      [] data = ""         -> [ok |-> TRUE, bytes |-> <<>>]
      [] OTHER             -> [ok |-> FALSE, bytes |-> <<>>]

\* PSKT<Creator>::default(): the skeleton of a fresh instance
DefaultInner ==
    [inputs |-> <<>>, outputs |-> <<>>,
     inputs_modifiable |-> FALSE, outputs_modifiable |-> FALSE,
     fallback_lock_time |-> None]

\* a State value: the role tag and its payload; only NoOp may hold None
St(role, inner) == [role |-> role, inner |-> inner]

\* State::display()
display(s) == IF s.role = "NoOp" THEN "Init" ELSE s.role

(* ------------------------------ results ------------------------------- *)

Ok(v) == [kind |-> "ok", err |-> "", msg |-> "", value |-> v]
Err(e, msg) == [kind |-> "err", err |-> e, msg |-> msg, value |-> None]
Panic == [kind |-> "panic", err |-> "", msg |-> "", value |-> None]

\* Error::state(state): the wrong-state error, carrying the observed role
ErrorState(s) == Err("State", display(s))
\* Error::expected_state(name)
ErrorExpectedState(name) == Err("ExpectedState", name)

Out(m, res) == [m |-> m, res |-> res]

(* --------------------- the mutex-protected slot ----------------------- *)

\* PyPSKT::from(State): Arc::new(Mutex::new(Some(value)))
FromState(s) == [value |-> Some(s), poisoned |-> FALSE]

\* PyPSKT::take: lock().unwrap().take().unwrap().  The slot is emptied
\* whatever happens next; unwrapping an empty slot panics
\* while the guard is alive, which poisons the mutex.
take(m) ==
    IF m.poisoned
    THEN [m |-> m, panic |-> TRUE, st |-> None]
    ELSE IF is_none(m.value)
         THEN [m |-> [value |-> None, poisoned |-> TRUE], panic |-> TRUE, st |-> None]
         ELSE [m |-> [value |-> None, poisoned |-> FALSE], panic |-> FALSE, st |-> m.value]

\* PyPSKT::replace: lock().unwrap().replace(state); Ok(self.clone())
replace(m, s) ==
    IF m.poisoned
    THEN Out(m, Panic)
    ELSE Out([value |-> Some(s), poisoned |-> FALSE], Ok(None))

\* PyPSKT::state followed by as_ref().unwrap(): a read under the lock
\* (state_read below).
\*
\* a read that takes an empty slot for a NoOp without skeleton
state_read_empty_as_noop(m) ==
    IF m.poisoned
    THEN [m |-> m, panic |-> TRUE, st |-> None]
    ELSE IF is_none(m.value)
         THEN [m |-> m, panic |-> FALSE, st |-> Some(St("NoOp", None))]
         ELSE [m |-> m, panic |-> FALSE, st |-> m.value]

state_read(m) ==
    IF m.poisoned
    THEN [m |-> m, panic |-> TRUE, st |-> None]
    ELSE IF is_none(m.value)
         THEN [m |-> [value |-> None, poisoned |-> TRUE], panic |-> TRUE, st |-> None]
         ELSE [m |-> m, panic |-> FALSE, st |-> m.value]

\* the outcome of a match arm: the next state, or the error of the `?`
Next_(s) == [ok |-> TRUE, st |-> s, err |-> Ok(None)]
Fail_(e) == [ok |-> FALSE, st |-> St("NoOp", None), err |-> e]

\* take the current state, match on it, and replace on success only
\* (commit below).
\*
\* a failure path that puts a NoOp without skeleton into the slot
commit_resets(t, r) == IF r.ok THEN replace(t.m, r.st) ELSE Out(FromState(r.st), r.err)

commit(t, r) == IF r.ok THEN replace(t.m, r.st) ELSE Out(t.m, r.err)

(* ----------------------- role transitions ----------------------------- *)

\* inner.ok_or(NotInitialized)?.into(): from_noop below.
\*
\* a NoOp arm that falls back to a default skeleton
from_noop_default(s, role) ==
    IF is_none(s.inner) THEN Next_(St(role, Some(DefaultInner)))
    ELSE Next_(St(role, s.inner))

from_noop(s, role) ==
    IF is_none(s.inner) THEN Fail_(Err("NotInitialized", ""))
    ELSE Next_(St(role, s.inner))

\* a creator() that restarts an import as a Creator
creator_match_restart(s) ==
    IF s.role = "NoOp" THEN Next_(St("Creator", Some(DefaultInner)))
    ELSE Fail_(ErrorState(s))

creator_match(s) ==
    IF s.role = "NoOp"
    THEN IF is_none(s.inner) THEN Next_(St("Creator", Some(DefaultInner)))
         ELSE Fail_(Err("CreateNotAllowed", ""))
    ELSE Fail_(ErrorState(s))

\* to_constructor with an arm that reopens a Signer for construction
to_constructor_match_from_signer(s) ==
    CASE s.role = "NoOp"    -> from_noop(s, "Constructor")
      [] s.role = "Creator" -> Next_(St("Constructor", s.inner))
      [] s.role = "Signer"  -> Next_(St("Constructor", s.inner))
      [] OTHER              -> Fail_(ErrorState(s))

to_constructor_match(s) ==
    CASE s.role = "NoOp"    -> from_noop(s, "Constructor")
      [] s.role = "Creator" -> Next_(St("Constructor", s.inner))
      [] OTHER              -> Fail_(ErrorState(s))

\* PSKT<Constructor>::updater(): construction is completed, so the
\* skeleton is closed for further inputs and outputs
\* (no_more_inputs().no_more_outputs()) and handed on otherwise as it is
constructor_updater(inner) ==
    Some([unwrap(inner) EXCEPT !.inputs_modifiable = FALSE, !.outputs_modifiable = FALSE])

\* an updater() that forgets the inputs gathered so far
to_updater_match_drops_inputs(s) ==
    CASE s.role = "NoOp"        -> from_noop(s, "Updater")
      [] s.role = "Constructor" ->
            Next_(St("Updater", Some([unwrap(constructor_updater(s.inner)) EXCEPT !.inputs = <<>>])))
      [] OTHER                  -> Fail_(ErrorState(s))

to_updater_match(s) ==
    CASE s.role = "NoOp"        -> from_noop(s, "Updater")
      [] s.role = "Constructor" -> Next_(St("Updater", constructor_updater(s.inner)))
      [] OTHER                  -> Fail_(ErrorState(s))

\* to_signer without its Combiner arm
to_signer_match_no_combiner(s) ==
    CASE s.role = "NoOp"        -> from_noop(s, "Signer")
      [] s.role = "Constructor" -> Next_(St("Signer", constructor_updater(s.inner)))
      [] s.role = "Updater"     -> Next_(St("Signer", s.inner))
      [] OTHER                  -> Fail_(ErrorState(s))

to_signer_match(s) ==
    CASE s.role = "NoOp"        -> from_noop(s, "Signer")
      [] s.role = "Constructor" -> Next_(St("Signer", constructor_updater(s.inner)))
      [] s.role = "Updater"     -> Next_(St("Signer", s.inner))
      [] s.role = "Combiner"    -> Next_(St("Signer", s.inner))
      [] OTHER                  -> Fail_(ErrorState(s))

\* to_combiner with an arm that takes an Extractor back
to_combiner_match_from_extractor(s) ==
    CASE s.role = "NoOp"        -> from_noop(s, "Combiner")
      [] s.role = "Constructor" -> Next_(St("Combiner", s.inner))
      [] s.role = "Updater"     -> Next_(St("Combiner", s.inner))
      [] s.role = "Signer"      -> Next_(St("Combiner", s.inner))
      [] s.role = "Extractor"   -> Next_(St("Combiner", s.inner))
      [] OTHER                  -> Fail_(ErrorState(s))

to_combiner_match(s) ==
    CASE s.role = "NoOp"        -> from_noop(s, "Combiner")
      [] s.role = "Constructor" -> Next_(St("Combiner", s.inner))
      [] s.role = "Updater"     -> Next_(St("Combiner", s.inner))
      [] s.role = "Signer"      -> Next_(St("Combiner", s.inner))
      [] OTHER                  -> Fail_(ErrorState(s))

\* to_finalizer with an arm for Signer as well
to_finalizer_match_from_signer(s) ==
    CASE s.role = "NoOp"     -> from_noop(s, "Finalizer")
      [] s.role = "Combiner" -> Next_(St("Finalizer", s.inner))
      [] s.role = "Signer"   -> Next_(St("Finalizer", s.inner))
      [] OTHER               -> Fail_(ErrorState(s))

to_finalizer_match(s) ==
    CASE s.role = "NoOp"     -> from_noop(s, "Finalizer")
      [] s.role = "Combiner" -> Next_(St("Finalizer", s.inner))
      [] OTHER               -> Fail_(ErrorState(s))

\* PSKT<Finalizer>::extractor(): every input must carry a final script
finalizer_extractor(inner) ==
    IF \E i \in 1..Len(inner.inputs) : is_none(inner.inputs[i].final_script_sig)
    THEN [ok |-> FALSE, inner |-> inner]
    ELSE [ok |-> TRUE, inner |-> inner]

\* to_extractor with an arm that takes a Combiner, skipping Finalizer
to_extractor_match_from_combiner(s) ==
    CASE s.role = "NoOp"      -> from_noop(s, "Extractor")
      [] s.role = "Finalizer" ->
            IF finalizer_extractor(unwrap(s.inner)).ok
            THEN Next_(St("Extractor", s.inner))
            ELSE Fail_(Err("TxNotFinalized", ""))
      [] s.role = "Combiner"  -> Next_(St("Extractor", s.inner))
      [] OTHER                -> Fail_(ErrorState(s))

to_extractor_match(s) ==
    CASE s.role = "NoOp"      -> from_noop(s, "Extractor")
      [] s.role = "Finalizer" ->
            IF finalizer_extractor(unwrap(s.inner)).ok
            THEN Next_(St("Extractor", s.inner))
            ELSE Fail_(Err("TxNotFinalized", ""))
      [] OTHER                -> Fail_(ErrorState(s))

TransitionOps == {"creator", "to_constructor", "to_updater", "to_signer",
                  "to_combiner", "to_finalizer", "to_extractor"}

transition_match(op, s) ==
    CASE op = "creator"        -> creator_match(s)
      [] op = "to_constructor" -> to_constructor_match(s)
      [] op = "to_updater"     -> to_updater_match(s)
      [] op = "to_signer"      -> to_signer_match(s)
      [] op = "to_combiner"    -> to_combiner_match(s)
      [] op = "to_finalizer"   -> to_finalizer_match(s)
      [] op = "to_extractor"   -> to_extractor_match(s)

\* a whole transition method: take, match, replace
transition(m, op) ==
    LET t == take(m)
    IN  IF t.panic THEN Out(t.m, Panic)
        ELSE commit(t, transition_match(op, unwrap(t.st)))

creator(m) == transition(m, "creator")
to_constructor(m) == transition(m, "to_constructor")
to_updater(m) == transition(m, "to_updater")
to_signer(m) == transition(m, "to_signer")
to_combiner(m) == transition(m, "to_combiner")
to_finalizer(m) == transition(m, "to_finalizer")
to_extractor(m) == transition(m, "to_extractor")

(* ------------------- role-scoped mutating operations ------------------ *)

\* the arguments a caller can pass: a TransactionInput (with or without
\* its UTXO entry) and a TransactionOutput
InputArgs == [previous_outpoint : Outpoints, utxo : BOOLEAN]
OutputArgs == [value : OutputValues]

\* Input::try_from(TransactionInput): needs the UTXO entry; the sequence
\* and the signature script of the argument are not carried over
input_try_into(x) ==
    IF x.utxo
    THEN [ok |-> TRUE,
          input |-> [previous_outpoint |-> x.previous_outpoint,
                     sequence |-> None, redeem_script |-> None,
                     final_script_sig |-> None, partial_sigs |-> {}]]
    ELSE [ok |-> FALSE,
          input |-> [previous_outpoint |-> x.previous_outpoint,
                     sequence |-> None, redeem_script |-> None,
                     final_script_sig |-> None, partial_sigs |-> {}]]

\* Output::try_from(TransactionOutput)
output_try_into(y) == [ok |-> TRUE, output |-> [amount |-> y.value]]

\* a wrapper that hands the changed skeleton on to the next role
with_inner_next_role(s, inner) ==
    St(IF s.role = "Creator" THEN "Constructor" ELSE "Updater", Some(inner))

with_inner(s, inner) == St(s.role, Some(inner))

fallback_lock_time(m, lock_time) ==
    LET t == take(m)
    IN  IF t.panic THEN Out(t.m, Panic)
        ELSE LET s == unwrap(t.st)
             IN  IF s.role = "Creator"
                 THEN replace(t.m, with_inner(s,
                          [unwrap(s.inner) EXCEPT !.fallback_lock_time = Some(lock_time)]))
                 ELSE Out(t.m, ErrorExpectedState("Creator"))

inputs_modifiable(m) ==
    LET t == take(m)
    IN  IF t.panic THEN Out(t.m, Panic)
        ELSE LET s == unwrap(t.st)
             IN  IF s.role = "Creator"
                 THEN replace(t.m, with_inner(s,
                          [unwrap(s.inner) EXCEPT !.inputs_modifiable = TRUE]))
                 ELSE Out(t.m, ErrorExpectedState("Creator"))

outputs_modifiable(m) ==
    LET t == take(m)
    IN  IF t.panic THEN Out(t.m, Panic)
        ELSE LET s == unwrap(t.st)
             IN  IF s.role = "Creator"
                 THEN replace(t.m, with_inner(s,
                          [unwrap(s.inner) EXCEPT !.outputs_modifiable = TRUE]))
                 ELSE Out(t.m, ErrorExpectedState("Creator"))

no_more_inputs(m) ==
    LET t == take(m)
    IN  IF t.panic THEN Out(t.m, Panic)
        ELSE LET s == unwrap(t.st)
             IN  IF s.role = "Constructor"
                 THEN replace(t.m, with_inner(s,
                          [unwrap(s.inner) EXCEPT !.inputs_modifiable = FALSE]))
                 ELSE Out(t.m, ErrorExpectedState("Constructor"))

no_more_outputs(m) ==
    LET t == take(m)
    IN  IF t.panic THEN Out(t.m, Panic)
        ELSE LET s == unwrap(t.st)
             IN  IF s.role = "Constructor"
                 THEN replace(t.m, with_inner(s,
                          [unwrap(s.inner) EXCEPT !.outputs_modifiable = FALSE]))
                 ELSE Out(t.m, ErrorExpectedState("Constructor"))

\* PSKT<Constructor>::input: pushes the input, returns the PSKT itself
\* (the call site wraps the value directly, there is no error to return);
\* pskt_input below.
\*
\* an input() that puts the new input in front
pskt_input_front(inner, i) == [inner EXCEPT !.inputs = <<i>> \o @]

pskt_input(inner, i) == [inner EXCEPT !.inputs = Append(@, i)]

\* PSKT<Constructor>::output
pskt_output(inner, o) == [inner EXCEPT !.outputs = Append(@, o)]

\* the conversion of the argument happens inside the Constructor arm,
\* after take()
input(m, x) ==
    LET t == take(m)
    IN  IF t.panic THEN Out(t.m, Panic)
        ELSE LET s == unwrap(t.st)
                 c == input_try_into(x)
             IN  IF s.role = "Constructor"
                 THEN IF c.ok
                      THEN replace(t.m, with_inner(s, pskt_input(unwrap(s.inner), c.input)))
                      ELSE Out(t.m, Err("Pskt", "MissingUtxoEntry"))
                 ELSE Out(t.m, ErrorExpectedState("Constructor"))

output(m, y) ==
    LET t == take(m)
    IN  IF t.panic THEN Out(t.m, Panic)
        ELSE LET s == unwrap(t.st)
                 c == output_try_into(y)
             IN  IF s.role = "Constructor"
                 THEN IF c.ok
                      THEN replace(t.m, with_inner(s, pskt_output(unwrap(s.inner), c.output)))
                      ELSE Out(t.m, Err("Pskt", "Output"))
                 ELSE Out(t.m, ErrorExpectedState("Constructor"))

\* the argument is converted and the hex decoded before take()
\* (input_and_redeem_script below).
\*
\* a variant that attaches the redeem script to every input of the list
input_and_redeem_script_all(m, x, data) ==
    LET c == input_try_into(x)
        h == hex_decode(data)
    IN  IF ~c.ok THEN Out(m, Err("Pskt", "MissingUtxoEntry"))
        ELSE IF ~h.ok THEN Out(m, Err("Custom", "Redeem script is not a hex string"))
        ELSE LET t == take(m)
             IN  IF t.panic THEN Out(t.m, Panic)
                 ELSE LET s == unwrap(t.st)
                          grown == pskt_input(unwrap(s.inner), c.input)
                      IN  IF s.role = "Constructor"
                          THEN replace(t.m, with_inner(s,
                                  [grown EXCEPT !.inputs =
                                      [j \in 1..Len(grown.inputs) |->
                                          [grown.inputs[j] EXCEPT !.redeem_script = Some(h.bytes)]]]))
                          ELSE Out(t.m, ErrorExpectedState("Constructor"))

input_and_redeem_script(m, x, data) ==
    LET c == input_try_into(x)
        h == hex_decode(data)
    IN  IF ~c.ok THEN Out(m, Err("Pskt", "MissingUtxoEntry"))
        ELSE IF ~h.ok THEN Out(m, Err("Custom", "Redeem script is not a hex string"))
        ELSE LET i == [c.input EXCEPT !.redeem_script = Some(h.bytes)]
                 t == take(m)
             IN  IF t.panic THEN Out(t.m, Panic)
                 ELSE LET s == unwrap(t.st)
                      IN  IF s.role = "Constructor"
                          THEN replace(t.m, with_inner(s, pskt_input(unwrap(s.inner), i)))
                          ELSE Out(t.m, ErrorExpectedState("Constructor"))

\* set_sequence writing the sequence of every input
pskt_set_sequence_all(inner, n, input_index) ==
    IF input_index < Len(inner.inputs)
    THEN [ok |-> TRUE,
          inner |-> [inner EXCEPT !.inputs =
                        [j \in 1..Len(inner.inputs) |->
                            [inner.inputs[j] EXCEPT !.sequence = Some(n)]]]]
    ELSE [ok |-> FALSE, inner |-> inner]

\* PSKT<Updater>::set_sequence: inputs.get_mut(index).ok_or(OutOfBounds)
pskt_set_sequence(inner, n, input_index) ==
    IF input_index < Len(inner.inputs)
    THEN [ok |-> TRUE,
          inner |-> [inner EXCEPT !.inputs[input_index + 1].sequence = Some(n)]]
    ELSE [ok |-> FALSE, inner |-> inner]

\* set_sequence with the wrong-state error in place of ExpectedState
set_sequence_wrong_state(m, n, input_index) ==
    LET t == take(m)
    IN  IF t.panic THEN Out(t.m, Panic)
        ELSE LET s == unwrap(t.st)
             IN  IF s.role = "Updater"
                 THEN LET u == pskt_set_sequence(unwrap(s.inner), n, input_index)
                      IN  IF u.ok THEN replace(t.m, with_inner(s, u.inner))
                          ELSE Out(t.m, Err("Pskt", "OutOfBounds"))
                 ELSE Out(t.m, ErrorState(s))

set_sequence(m, n, input_index) ==
    LET t == take(m)
    IN  IF t.panic THEN Out(t.m, Panic)
        ELSE LET s == unwrap(t.st)
             IN  IF s.role = "Updater"
                 THEN LET u == pskt_set_sequence(unwrap(s.inner), n, input_index)
                      IN  IF u.ok THEN replace(t.m, with_inner(s, u.inner))
                          ELSE Out(t.m, Err("Pskt", "OutOfBounds"))
                 ELSE Out(t.m, ErrorExpectedState("Updater"))

(* -------------------- queries and serialization ---------------------- *)

\* a textual payload: the JSON of a State (the externally tagged pair
\* "state"/"payload" that serde_json::to_string(&State) writes), the JSON
\* of an Inner (the keys global/inputs/outputs), or text that is neither
StateJson(s) == [kind |-> "State", tag |-> s.role, payload |-> s.inner]
InnerJson(inner) == [kind |-> "Inner", tag |-> "", payload |-> Some(inner)]
GarbageText == [kind |-> "Garbage", tag |-> "", payload |-> None]

\* serde_json::to_string(state.as_ref().unwrap())
to_string(s) == StateJson(s)

\* serde_json::from_str::<Inner>(&p): the target type is Inner (the value
\* is put into State::NoOp(Some(inner))); the keys of a State object are
\* not those of an Inner, so only the JSON of an Inner parses
from_str(p) ==
    IF p.kind = "Inner"
    THEN [ok |-> TRUE, inner |-> p.payload]
    ELSE [ok |-> FALSE, inner |-> None]

\* a query result: the mutex after the call and the value read
get_role(m) ==
    LET r == state_read(m)
    IN  IF r.panic THEN Out(r.m, Panic) ELSE Out(r.m, Ok(Some(display(unwrap(r.st)))))

get_payload(m) ==
    LET r == state_read(m)
    IN  IF r.panic THEN Out(r.m, Panic) ELSE Out(r.m, Ok(Some(to_string(unwrap(r.st)))))

serialize(m) ==
    LET r == state_read(m)
    IN  IF r.panic THEN Out(r.m, Panic) ELSE Out(r.m, Ok(Some(to_string(unwrap(r.st)))))

(* --------------------------- construction ----------------------------- *)

\* a conversion that does not stop at an input without UTXO entry
tx_try_into_unchecked(tx) ==
    [ok |-> TRUE,
     inner |-> [DefaultInner EXCEPT
                  !.inputs = [i \in 1..Len(tx.inputs) |-> input_try_into(tx.inputs[i]).input],
                  !.outputs = [i \in 1..Len(tx.outputs) |-> output_try_into(tx.outputs[i]).output]]]

\* Inner::try_from(Transaction): every input is converted
tx_try_into(tx) ==
    IF \A i \in 1..Len(tx.inputs) : input_try_into(tx.inputs[i]).ok
    THEN [ok |-> TRUE,
          inner |-> [DefaultInner EXCEPT
                       !.inputs = [i \in 1..Len(tx.inputs) |-> input_try_into(tx.inputs[i]).input],
                       !.outputs = [i \in 1..Len(tx.outputs) |-> output_try_into(tx.outputs[i]).output]]]
    ELSE [ok |-> FALSE, inner |-> DefaultInner]

NonePayload == [kind |-> "none", text |-> None, tx |-> None]
TextPayload(t) == [kind |-> "text", text |-> Some(t), tx |-> None]
TxPayload(tx) == [kind |-> "tx", text |-> None, tx |-> Some(tx)]
OtherPayload == [kind |-> "other", text |-> None, tx |-> None]

\* new() that wraps the default skeleton of an absent payload in NoOp
new_absent_as_noop(payload) ==
    CASE payload.kind = "text" ->
            LET r == from_str(unwrap(payload.text))
            IN  IF r.ok THEN Out(FromState(St("NoOp", r.inner)), Ok(None))
                ELSE Out([value |-> None, poisoned |-> FALSE], Err("PyException", "serde_json"))
      [] payload.kind = "tx" ->
            LET r == tx_try_into(unwrap(payload.tx))
            IN  IF r.ok THEN Out(FromState(St("NoOp", Some(r.inner))), Ok(None))
                ELSE Out([value |-> None, poisoned |-> FALSE],
                         Err("PyException", "Transaction to Inner failed"))
      [] payload.kind = "none" ->
            Out(FromState(St("NoOp", Some(DefaultInner))), Ok(None))
      [] OTHER ->
            Out([value |-> None, poisoned |-> FALSE], Err("PyException", "Invalid payload"))

\* PyPSKT::new(payload): the errors are plain PyException values
new(payload) ==
    CASE payload.kind = "text" ->
            LET r == from_str(unwrap(payload.text))
            IN  IF r.ok THEN Out(FromState(St("NoOp", r.inner)), Ok(None))
                ELSE Out([value |-> None, poisoned |-> FALSE], Err("PyException", "serde_json"))
      [] payload.kind = "tx" ->
            LET r == tx_try_into(unwrap(payload.tx))
            IN  IF r.ok THEN Out(FromState(St("NoOp", Some(r.inner))), Ok(None))
                ELSE Out([value |-> None, poisoned |-> FALSE],
                         Err("PyException", "Transaction to Inner failed"))
      [] payload.kind = "none" ->
            Out(FromState(St("Creator", Some(DefaultInner))), Ok(None))
      [] OTHER ->
            Out([value |-> None, poisoned |-> FALSE], Err("PyException", "Invalid payload"))

(* -------------------- calculate_id, calculate_mass -------------------- *)

\* the stub callback of calculate_mass: vec![vec![0u8, 65]; inner.inputs.len()]
stub_sigs(inner) == [i \in 1..Len(inner.inputs) |-> <<0, 65>>]

\* PSKT<Finalizer>::finalize_sync: one non-empty script per input is
\* required; each becomes the input's final script
finalize_sync(inner, sigs) ==
    IF Len(sigs) # Len(inner.inputs) \/ \E i \in 1..Len(sigs) : Len(sigs[i]) = 0
    THEN [ok |-> FALSE, inner |-> inner]
    ELSE [ok |-> TRUE,
          inner |-> [inner EXCEPT !.inputs =
                        [i \in 1..Len(inner.inputs) |->
                            [inner.inputs[i] EXCEPT !.final_script_sig = Some(sigs[i])]]]]

\* tx.tx.mass() of the extracted transaction: the consensus mass grows
\* with the serialized size, hence with each input's signature script
\* and with each output
tx_mass(inner, network_type) ==
    LET in_mass[i \in 0..Len(inner.inputs)] ==
            IF i = 0 THEN 0
            ELSE in_mass[i - 1] + 52 + Len(unwrap(inner.inputs[i].final_script_sig))
    IN  94 + in_mass[Len(inner.inputs)] + 52 * Len(inner.outputs)

\* calculate_mass without the loop that rejects redeem scripts
mass_of_finalizer_no_redeem_check(s, network_type) ==
    IF s.role # "Finalizer" THEN Panic
    ELSE LET inner == unwrap(s.inner)
             f == finalize_sync(inner, stub_sigs(inner))
         IN  IF ~f.ok THEN Err("Custom", "Failed to finalize PSKT")
             ELSE IF ~finalizer_extractor(f.inner).ok THEN Err("TxNotFinalized", "")
             ELSE Ok(Some(tx_mass(f.inner, network_type)))

\* the body of calculate_mass after `cloned_pskt.to_finalizer()?`, on the
\* State cloned out of the slot
mass_of_finalizer(s, network_type) ==
    IF s.role # "Finalizer" THEN Panic
    ELSE LET inner == unwrap(s.inner)
         IN  IF \E i \in 1..Len(inner.inputs) : is_some(inner.inputs[i].redeem_script)
             THEN Err("Custom", "Mass calculation is not supported for inputs with redeem scripts")
             ELSE LET f == finalize_sync(inner, stub_sigs(inner))
                  IN  IF ~f.ok THEN Err("Custom", "Failed to finalize PSKT")
                      ELSE IF ~finalizer_extractor(f.inner).ok THEN Err("TxNotFinalized", "")
                      ELSE Ok(Some(tx_mass(f.inner, network_type)))

\* self.clone() of a PyPSKT clones the Arc: the clone is a second handle
\* on the same mutex and slot
clone(m) == m

\* PyPSKT::calculate_mass: to_finalizer() runs on the clone's slot, which
\* is the receiver's slot
\* (calculate_mass below).
\*
\* a calculate_mass that finalizes a copy of the skeleton of any role
calculate_mass_any_role(m, network_type) ==
    LET r == state_read(m)
    IN  IF r.panic THEN Out(r.m, Panic)
        ELSE Out(r.m, mass_of_finalizer(St("Finalizer", unwrap(r.st).inner), network_type))

calculate_mass(m, network_type) ==
    LET cloned_pskt == clone(m)
        f == to_finalizer(cloned_pskt)
    IN  IF f.res.kind # "ok" THEN f
        ELSE LET r == state_read(f.m)
             IN  IF r.panic THEN Out(r.m, Panic)
                 ELSE Out(r.m, mass_of_finalizer(unwrap(r.st), network_type))

\* PSKT<Signer>::calculate_id: the id of the unsigned transaction, built
\* from the inputs' outpoints and sequences, from the outputs and from
\* the lock time (tx_id below).  The lock time is the fallback lock time
\* when one was set, else 0
determine_lock_time(inner) ==
    IF is_none(inner.fallback_lock_time) THEN 0 ELSE unwrap(inner.fallback_lock_time)

\* an id that also hashes the signatures gathered so far
tx_id_with_sigs(inner) ==
    [inputs |-> [i \in 1..Len(inner.inputs) |->
                    <<inner.inputs[i].previous_outpoint, inner.inputs[i].sequence,
                      inner.inputs[i].partial_sigs>>],
     outputs |-> inner.outputs,
     lock_time |-> determine_lock_time(inner)]

tx_id(inner) ==
    [inputs |-> [i \in 1..Len(inner.inputs) |->
                    <<inner.inputs[i].previous_outpoint, inner.inputs[i].sequence>>],
     outputs |-> inner.outputs,
     lock_time |-> determine_lock_time(inner)]

\* a calculate_id written like the mutating methods: take(), then match
calculate_id_takes(m) ==
    LET t == take(m)
    IN  IF t.panic THEN Out(t.m, Panic)
        ELSE IF unwrap(t.st).role = "Signer"
             THEN Out(replace(t.m, unwrap(t.st)).m,
                      Ok(Some(tx_id(unwrap(unwrap(t.st).inner)))))
             ELSE Out(t.m, ErrorExpectedState("Signer"))

calculate_id(m) ==
    LET r == state_read(m)
    IN  IF r.panic THEN Out(r.m, Panic)
        ELSE IF unwrap(r.st).role = "Signer"
             THEN Out(r.m, Ok(Some(tx_id(unwrap(unwrap(r.st).inner)))))
             ELSE Out(r.m, ErrorExpectedState("Signer"))

(* ----------------------- the state machine ---------------------------- *)

\* state  : the instance's Arc<Mutex<Option<State>>> (value, poisoned)
\* last   : the last call made on the instance: operation, arguments,
\*          the slot before the call, the result returned
\* frozen : the input (output) list at the time no_more_inputs
\*          (no_more_outputs) last succeeded
\* th     : two threads calling transitions on the same instance

Threads == {1, 2}

IdleCall == [pc |-> "idle", op |-> "", taken |-> None, res |-> Ok(None)]
NoThreads == [start |-> None, call |-> [t \in Threads |-> IdleCall]]
ThreadsIdle == th = NoThreads

\* the Python handles on the instance: the receiver the instance was
\* constructed as points at the slot `state`; h2 is the handle the last
\* successful operation returned (the number of the slot it points at),
\* and slot2 is a second allocation a handle could point at
NoHandles == [h2 |-> None, slot2 |-> [value |-> None, poisoned |-> FALSE]]

\* the roles the instance has been in, in the order it first entered
\* them; kept by SpecFresh only
NoPath == <<>>

\* skeletons that arrive as a serialized Inner from another party
PlainInput(o) ==
    [previous_outpoint |-> o, sequence |-> None, redeem_script |-> None,
     final_script_sig |-> None, partial_sigs |-> {}]
ImportInners ==
    { DefaultInner,
      [DefaultInner EXCEPT !.inputs = <<PlainInput(1)>>, !.outputs = <<[amount |-> 500]>>],
      [DefaultInner EXCEPT !.inputs = <<[PlainInput(1) EXCEPT !.redeem_script = Some(<<222, 173, 190, 239>>)]>>],
      [DefaultInner EXCEPT !.inputs = <<[PlainInput(2) EXCEPT !.partial_sigs = {1},
                                                       !.final_script_sig = Some(<<65, 1>>)]>>,
                           !.outputs = <<[amount |-> 500]>>] }

ImportTxs ==
    { [inputs |-> <<[previous_outpoint |-> 1, utxo |-> u]>>, outputs |-> <<[value |-> 500]>>]
        : u \in BOOLEAN }

Payloads ==
    {NonePayload, OtherPayload, TextPayload(GarbageText)}
      \cup {TextPayload(InnerJson(i)) : i \in ImportInners}
      \cup {TxPayload(tx) : tx \in ImportTxs}

\* the instances that construction can return
Init ==
    \E payload \in Payloads :
        /\ new(payload).res.kind = "ok"
        /\ state = new(payload).m
        /\ last = [op |-> "new", arg |-> <<payload>>, pre |-> new(payload).m, res |-> new(payload).res]
        /\ frozen = [inputs |-> None, outputs |-> None]
        /\ th = NoThreads
        /\ handles = NoHandles
        /\ path = NoPath

inputs_of(m) == unwrap(unwrap(m.value).inner).inputs
outputs_of(m) == unwrap(unwrap(m.value).inner).outputs

CanGrowInputs == IF is_none(state.value) THEN TRUE ELSE Len(inputs_of(state)) < MaxInputs
CanGrowOutputs == IF is_none(state.value) THEN TRUE ELSE Len(outputs_of(state)) < MaxOutputs

\* one call on the instance, from the only thread
Call(op, arg, out) ==
    /\ ThreadsIdle
    /\ state' = out.m
    /\ last' = [op |-> op, arg |-> arg, pre |-> state, res |-> out.res]
    /\ frozen' = [inputs |-> IF op = "no_more_inputs" /\ out.res.kind = "ok"
                             THEN Some(inputs_of(out.m)) ELSE frozen.inputs,
                  outputs |-> IF op = "no_more_outputs" /\ out.res.kind = "ok"
                              THEN Some(outputs_of(out.m)) ELSE frozen.outputs]
    /\ UNCHANGED <<th, handles, path>>

Creator == Call("creator", <<>>, creator(state))
ToConstructor == Call("to_constructor", <<>>, to_constructor(state))
ToUpdater == Call("to_updater", <<>>, to_updater(state))
ToSigner == Call("to_signer", <<>>, to_signer(state))
ToCombiner == Call("to_combiner", <<>>, to_combiner(state))
ToFinalizer == Call("to_finalizer", <<>>, to_finalizer(state))
ToExtractor == Call("to_extractor", <<>>, to_extractor(state))
FallbackLockTime == \E t \in LockTimes : Call("fallback_lock_time", <<t>>, fallback_lock_time(state, t))
InputsModifiable == Call("inputs_modifiable", <<>>, inputs_modifiable(state))
OutputsModifiable == Call("outputs_modifiable", <<>>, outputs_modifiable(state))
NoMoreInputs == Call("no_more_inputs", <<>>, no_more_inputs(state))
NoMoreOutputs == Call("no_more_outputs", <<>>, no_more_outputs(state))
InputOp == \E x \in InputArgs : CanGrowInputs /\ Call("input", <<x>>, input(state, x))
OutputOp == \E y \in OutputArgs : CanGrowOutputs /\ Call("output", <<y>>, output(state, y))
InputAndRedeemScript ==
    \E x \in InputArgs, data \in HexStrings :
        CanGrowInputs /\ Call("input_and_redeem_script", <<x, data>>, input_and_redeem_script(state, x, data))
SetSequence ==
    \E n \in SequenceValues, i \in 0..MaxInputs : Call("set_sequence", <<n, i>>, set_sequence(state, n, i))
GetRole == Call("role", <<>>, get_role(state))
GetPayload == Call("payload", <<>>, get_payload(state))
Serialize == Call("serialize", <<>>, serialize(state))
CalculateId == Call("calculate_id", <<>>, calculate_id(state))
CalculateMass == \E n \in Networks : Call("calculate_mass", <<n>>, calculate_mass(state, n))

Next ==
    \/ Creator \/ ToConstructor \/ ToUpdater \/ ToSigner \/ ToCombiner
    \/ ToFinalizer \/ ToExtractor
    \/ FallbackLockTime \/ InputsModifiable \/ OutputsModifiable
    \/ NoMoreInputs \/ NoMoreOutputs
    \/ InputOp \/ OutputOp \/ InputAndRedeemScript \/ SetSequence
    \/ GetRole \/ GetPayload \/ Serialize \/ CalculateId \/ CalculateMass

Spec == Init /\ [][Next]_vars

(* ------------------ two threads on one instance ----------------------- *)

\* A transition method is take(), then the match, then replace(): the
\* mutex is locked inside take() and again inside replace(), and is free
\* in between.  ThreadCall is the method up to the end of take(),
\* ThreadReturn the rest of it.

ThreadCall(t, op) ==
    /\ th.call[t].pc = "idle"
    /\ LET k == take(state)
       IN  /\ state' = k.m
           /\ th' = [start |-> IF is_none(th.start) THEN Some(state) ELSE th.start,
                     call |-> [th.call EXCEPT ![t] =
                                 IF k.panic
                                 THEN [pc |-> "done", op |-> op, taken |-> None, res |-> Panic]
                                 ELSE [pc |-> "taken", op |-> op, taken |-> k.st, res |-> Ok(None)]]]
    /\ UNCHANGED <<last, frozen, handles, path>>

ThreadReturn(t) ==
    /\ th.call[t].pc = "taken"
    /\ LET o == commit([m |-> state], transition_match(th.call[t].op, unwrap(th.call[t].taken)))
       IN  /\ state' = o.m
           /\ th' = [th EXCEPT !.call[t] = [pc |-> "done", op |-> th.call[t].op,
                                           taken |-> None, res |-> o.res]]
    /\ UNCHANGED <<last, frozen, handles, path>>

\* the instance is brought to some role by one thread, then shared
NextConc ==
    \/ Creator \/ ToConstructor \/ ToUpdater \/ ToSigner \/ ToCombiner
    \/ ToFinalizer \/ ToExtractor
    \/ \E t \in Threads, op \in TransitionOps : ThreadCall(t, op)
    \/ \E t \in Threads : ThreadReturn(t)

SpecConc == Init /\ [][NextConc]_vars

(* ------------------------------ claims -------------------------------- *)

role_of(m) == unwrap(m.value).role
inner_of(m) == unwrap(unwrap(m.value).inner)

MutatingOps ==
    TransitionOps \cup
    {"fallback_lock_time", "inputs_modifiable", "outputs_modifiable",
     "no_more_inputs", "no_more_outputs", "input", "output",
     "input_and_redeem_script", "set_sequence"}

\* C1: whenever one of the transition or mutating operations returns an
\* error, the instance holds the same role and skeleton as before the call.
C1_FailedOperationRestores ==
    (last.op \in MutatingOps /\ last.res.kind = "err") => state = last.pre

\* C2: in every reachable state the slot holds a role variant, so the
\* role and payload queries return a value.
C2_SlotNeverEmpty ==
    /\ is_some(state.value)
    /\ get_role(state).res.kind = "ok"
    /\ get_payload(state).res.kind = "ok"

\* C3: after calculate_mass, whether it returned a mass or an error, the
\* instance's role and skeleton are what they were before the call.
C3_CalculateMassDoesNotMutate ==
    last.op = "calculate_mass" => state = last.pre

\* the transition table: the role each operation leads to and the roles
\* it is listed for (every reachable NoOp holds a skeleton)
Target(op) ==
    CASE op = "to_constructor" -> "Constructor"
      [] op = "to_updater"     -> "Updater"
      [] op = "to_signer"      -> "Signer"
      [] op = "to_combiner"    -> "Combiner"
      [] op = "to_finalizer"   -> "Finalizer"
      [] op = "to_extractor"   -> "Extractor"
      [] OTHER                 -> "Creator"

ListedFrom(op) ==
    CASE op = "creator"        -> {"NoOp"}
      [] op = "to_constructor" -> {"NoOp", "Creator"}
      [] op = "to_updater"     -> {"NoOp", "Constructor"}
      [] op = "to_signer"      -> {"NoOp", "Constructor", "Updater", "Combiner"}
      [] op = "to_combiner"    -> {"NoOp", "Constructor", "Updater", "Signer"}
      [] op = "to_finalizer"   -> {"NoOp", "Combiner"}
      [] op = "to_extractor"   -> {"NoOp", "Finalizer"}

\* C4: each listed (role, operation) pair up to to_finalizer succeeds and
\* leaves the instance in the role the table names.
C4_ListedTransitionsSucceed ==
    ( /\ last.op \in {"to_constructor", "to_updater", "to_signer", "to_combiner", "to_finalizer"}
      /\ is_some(last.pre.value)
      /\ role_of(last.pre) \in ListedFrom(last.op) )
    => ( /\ last.res.kind = "ok"
         /\ is_some(state.value)
         /\ role_of(state) = Target(last.op) )

C4_Witness ==
    /\ last.op = "to_signer"
    /\ is_some(last.pre.value)
    /\ role_of(last.pre) = "Combiner"
    /\ is_some(state.value)
    /\ role_of(state) = "Signer"

\* C5: a (role, operation) pair that the table does not list fails with
\* the wrong-state error that carries the observed role, and the slot
\* holds no new role afterwards.
C5_UnlistedTransitionsFail ==
    ( /\ last.op \in TransitionOps
      /\ is_some(last.pre.value)
      /\ role_of(last.pre) \notin ListedFrom(last.op) )
    => ( /\ last.res = Err("State", role_of(last.pre))
         /\ (is_some(state.value) => state = last.pre) )

C5_Witness ==
    /\ last.op = "to_finalizer"
    /\ is_some(last.pre.value)
    /\ role_of(last.pre) = "Signer"
    /\ last.res = Err("State", "Signer")

\* the two serial executions of the two calls from the slot the first
\* thread found
Serial(m, op1, op2) ==
    LET a == transition(m, op1)
        b == transition(a.m, op2)
    IN  <<b.m, a.res, b.res>>

\* C6: when two threads each call a transition on the same instance, the
\* final slot and the two results are those of one of the two serial
\* orders of the calls.
C6_Serializable ==
    (th.call[1].pc = "done" /\ th.call[2].pc = "done")
    => LET m0 == unwrap(th.start)
           s12 == Serial(m0, th.call[1].op, th.call[2].op)
           s21 == Serial(m0, th.call[2].op, th.call[1].op)
       IN  \/ <<state, th.call[1].res, th.call[2].res>> = s12
           \/ <<state, th.call[1].res, th.call[2].res>> = <<s21[1], s21[3], s21[2]>>

\* C7: parsing the serialized form of an instance succeeds and gives an
\* instance of the same role with the same skeleton.
C7_RoundTrip ==
    is_some(state.value)
    => LET x == unwrap(state.value)
           r == new(TextPayload(unwrap(serialize(state).res.value)))
       IN  /\ r.res.kind = "ok"
           /\ unwrap(r.m.value) = x

\* the number and order of a list of inputs: the outpoint and redeem
\* script of each entry (the sequence number may be rewritten in place)
entries(inputs) ==
    [i \in 1..Len(inputs) |-> <<inputs[i].previous_outpoint, inputs[i].redeem_script>>]

\* C8: once no_more_inputs (no_more_outputs) has succeeded, the inputs
\* (outputs) keep their number and order, and a later input or
\* input_and_redeem_script (output) call is rejected.
C8_FrozenListsStay ==
    /\ (is_some(frozen.inputs) /\ is_some(state.value))
            => entries(inputs_of(state)) = entries(unwrap(frozen.inputs))
    /\ (is_some(frozen.outputs) /\ is_some(state.value))
            => outputs_of(state) = unwrap(frozen.outputs)
    /\ (is_some(frozen.inputs) /\ last.op \in {"input", "input_and_redeem_script"})
            => last.res.kind # "ok"
    /\ (is_some(frozen.outputs) /\ last.op = "output") => last.res.kind # "ok"

has_redeem_script(inner) ==
    \E i \in 1..Len(inner.inputs) : is_some(inner.inputs[i].redeem_script)

\* C9 as stated: for an instance with an input that carries a redeem
\* script, calculate_mass fails with Custom.
C9_RedeemScriptGivesCustom ==
    ( /\ last.op = "calculate_mass"
      /\ is_some(last.pre.value)
      /\ has_redeem_script(inner_of(last.pre)) )
    => (last.res.kind = "err" /\ last.res.err = "Custom")

\* C9 amended: for an instance with an input that carries a redeem
\* script, calculate_mass never returns a mass and never panics; it fails
\* with Custom when the role is Combiner or NoOp, and with the wrong-state
\* error of to_finalizer in every other role.
C9_RedeemScriptRejected ==
    ( /\ last.op = "calculate_mass"
      /\ is_some(last.pre.value)
      /\ has_redeem_script(inner_of(last.pre)) )
    => ( /\ last.res.kind = "err"
         /\ (role_of(last.pre) \in {"Combiner", "NoOp"} => last.res.err = "Custom")
         /\ (role_of(last.pre) \notin {"Combiner", "NoOp"}
                => last.res = Err("State", role_of(last.pre))) )

C9_Witness ==
    /\ last.op = "calculate_mass"
    /\ is_some(last.pre.value)
    /\ role_of(last.pre) = "Combiner"
    /\ has_redeem_script(inner_of(last.pre))
    /\ last.res.kind = "err"
    /\ last.res.err = "Custom"

\* C10: two consecutive calculate_mass calls on the same instance with
\* the same network id return the same result.
C10_Deterministic ==
    [][ (last.op = "calculate_mass" /\ last'.op = "calculate_mass" /\ last'.arg = last.arg)
            => last'.res = last.res ]_vars

unfinalized(inner) ==
    \E i \in 1..Len(inner.inputs) : is_none(inner.inputs[i].final_script_sig)

\* C11: an instance in role Extractor has a final script on every input,
\* and to_extractor called from Finalizer or from NoOp on a skeleton with
\* an input that lacks its final script fails with TxNotFinalized.
C11_ExtractorIsFinalized ==
    /\ (is_some(state.value) /\ role_of(state) = "Extractor")
            => ~unfinalized(inner_of(state))
    /\ ( /\ last.op = "to_extractor"
         /\ is_some(last.pre.value)
         /\ role_of(last.pre) \in {"NoOp", "Finalizer"}
         /\ unfinalized(inner_of(last.pre)) )
            => last.res = Err("TxNotFinalized", "")

C13_SetSequence ==
    ( /\ last.op = "set_sequence"
      /\ is_some(last.pre.value)
      /\ role_of(last.pre) = "Updater" )
    => LET n == last.arg[1]
           i == last.arg[2]
           a == inner_of(last.pre)
       IN  IF i < Len(a.inputs)
           THEN /\ last.res.kind = "ok"
                /\ is_some(state.value)
                /\ role_of(state) = "Updater"
                /\ LET b == inner_of(state)
                   IN  /\ Len(b.inputs) = Len(a.inputs)
                       /\ b.inputs[i + 1].sequence = Some(n)
                       /\ [b.inputs[i + 1] EXCEPT !.sequence = a.inputs[i + 1].sequence]
                              = a.inputs[i + 1]
                       /\ \A j \in 1..Len(a.inputs) : j # i + 1 => b.inputs[j] = a.inputs[j]
                       /\ b.outputs = a.outputs
                       /\ b.inputs_modifiable = a.inputs_modifiable
                       /\ b.outputs_modifiable = a.outputs_modifiable
                       /\ b.fallback_lock_time = a.fallback_lock_time
           ELSE last.res.kind = "err"

C13_Witness ==
    /\ last.op = "set_sequence"
    /\ last.arg[2] = 1
    /\ is_some(last.pre.value)
    /\ role_of(last.pre) = "Updater"
    /\ Len(inputs_of(last.pre)) = 2
    /\ is_none(inputs_of(last.pre)[1].sequence)
    /\ last.res.kind = "ok"
    /\ inputs_of(state)[2].sequence = Some(5)


\* the role each role-scoped operation requires
RequiredRole(op) ==
    CASE op \in {"fallback_lock_time", "inputs_modifiable", "outputs_modifiable"} -> "Creator"
      [] op \in {"input", "output", "input_and_redeem_script",
                 "no_more_inputs", "no_more_outputs"} -> "Constructor"
      [] op = "set_sequence" -> "Updater"
      [] op = "calculate_id" -> "Signer"

RoleScopedOps ==
    {"fallback_lock_time", "inputs_modifiable", "outputs_modifiable",
     "input", "output", "input_and_redeem_script", "no_more_inputs",
     "no_more_outputs", "set_sequence", "calculate_id"}

\* the arguments of the call pass the checks made before the role is
\* looked at (only input_and_redeem_script has such checks)
ValidArguments ==
    last.op = "input_and_redeem_script"
        => (input_try_into(last.arg[1]).ok /\ hex_decode(last.arg[2]).ok)

\* C14: a role-scoped operation called in another role than its own
\* fails with ExpectedState carrying the name of the required role.
C14_ExpectedStateOutsideRole ==
    ( /\ last.op \in RoleScopedOps
      /\ is_some(last.pre.value)
      /\ role_of(last.pre) # RequiredRole(last.op)
      /\ ValidArguments )
    => last.res = Err("ExpectedState", RequiredRole(last.op))

C14_Witness ==
    /\ last.op = "input_and_redeem_script"
    /\ ValidArguments
    /\ is_some(last.pre.value)
    /\ role_of(last.pre) = "Updater"
    /\ last.res = Err("ExpectedState", "Constructor")

\* C15: an instance constructed with no payload is in role Creator and
\* its skeleton has no inputs and no outputs.
C15_FreshIsCreator ==
    (last.op = "new" /\ last.arg[1].kind = "none")
    => ( /\ is_some(state.value)
         /\ role_of(state) = "Creator"
         /\ get_role(state).res = Ok(Some("Creator"))
         /\ inputs_of(state) = <<>>
         /\ outputs_of(state) = <<>> )

C15_Witness ==
    /\ last.op = "new"
    /\ last.arg[1].kind = "none"
    /\ last.res.kind = "ok"
    /\ role_of(state) = "Creator"

(* ------------------------ construction as a step ---------------------- *)

\* the slot of SpecNew before the constructor has run, and after a
\* constructor that returned an error: there is no instance
NoInstance == [value |-> None, poisoned |-> FALSE]

\* what a caller can hand to the constructor: the payloads above and the
\* text that serialize() returns for a fresh instance
NewPayloads ==
    Payloads \cup {TextPayload(to_string(St("Creator", Some(DefaultInner))))}

InitNew ==
    \E payload \in NewPayloads :
        /\ state = NoInstance
        /\ last = [op |-> "start", arg |-> <<payload>>, pre |-> NoInstance, res |-> Ok(None)]
        /\ frozen = [inputs |-> None, outputs |-> None]
        /\ th = NoThreads
        /\ handles = NoHandles
        /\ path = NoPath

\* PyPSKT::new on the payload
New ==
    /\ last.op = "start"
    /\ state' = new(last.arg[1]).m
    /\ last' = [op |-> "new", arg |-> last.arg, pre |-> state, res |-> new(last.arg[1]).res]
    /\ UNCHANGED <<frozen, th, handles, path>>

\* the constructor has returned an instance
Constructed == last.op # "start" /\ ~(last.op = "new" /\ last.res.kind # "ok")

\* the constructor, then every operation of Next on the instance it returned
NextNew ==
    \/ New
    \/ Constructed /\ Creator
    \/ Constructed /\ ToConstructor
    \/ Constructed /\ ToUpdater
    \/ Constructed /\ ToSigner
    \/ Constructed /\ ToCombiner
    \/ Constructed /\ ToFinalizer
    \/ Constructed /\ ToExtractor
    \/ Constructed /\ FallbackLockTime
    \/ Constructed /\ InputsModifiable
    \/ Constructed /\ OutputsModifiable
    \/ Constructed /\ NoMoreInputs
    \/ Constructed /\ NoMoreOutputs
    \/ Constructed /\ InputOp
    \/ Constructed /\ OutputOp
    \/ Constructed /\ InputAndRedeemScript
    \/ Constructed /\ SetSequence
    \/ Constructed /\ GetRole
    \/ Constructed /\ GetPayload
    \/ Constructed /\ Serialize
    \/ Constructed /\ CalculateId
    \/ Constructed /\ CalculateMass

SpecNew == InitNew /\ [][NextNew]_vars

\* C16: new(payload) has exactly one of these outcomes: a Creator
\* instance for an absent payload, a NoOp instance holding the parsed
\* skeleton for a text that parses, a NoOp instance holding the imported
\* skeleton for a transaction that converts, and an error with no
\* instance for every other payload.
C16_NewClassifies ==
    last.op = "new"
    => LET p == last.arg[1]
       IN  CASE p.kind = "none" ->
                    /\ last.res.kind = "ok"
                    /\ state.value = Some(St("Creator", Some(DefaultInner)))
             [] p.kind = "text" /\ unwrap(p.text).kind = "Inner" ->
                    /\ last.res.kind = "ok"
                    /\ state.value = Some(St("NoOp", unwrap(p.text).payload))
             [] p.kind = "tx" /\ (\A i \in 1..Len(unwrap(p.tx).inputs) : unwrap(p.tx).inputs[i].utxo) ->
                    /\ last.res.kind = "ok"
                    /\ role_of(state) = "NoOp"
                    /\ is_some(unwrap(state.value).inner)
                    /\ Len(inputs_of(state)) = Len(unwrap(p.tx).inputs)
                    /\ \A i \in 1..Len(unwrap(p.tx).inputs) :
                          inputs_of(state)[i].previous_outpoint
                              = unwrap(p.tx).inputs[i].previous_outpoint
                    /\ Len(outputs_of(state)) = Len(unwrap(p.tx).outputs)
                    /\ \A i \in 1..Len(unwrap(p.tx).outputs) :
                          outputs_of(state)[i].amount = unwrap(p.tx).outputs[i].value
             [] OTHER ->
                    /\ last.res.kind = "err"
                    /\ is_none(state.value)

C16_Witness ==
    /\ last.op = "new"
    /\ last.arg[1].kind = "tx"
    /\ last.res.kind = "err"
    /\ is_none(state.value)

\* C17: a payload of none of the accepted forms fails with
\* InvalidPayload, and a transaction that does not convert fails with the
\* constructor conversion error (Ctor).
C17_TypedConstructionErrors ==
    (last.op = "new" /\ last.res.kind = "err")
    => ( /\ last.arg[1].kind = "other" => last.res.err = "InvalidPayload"
         /\ last.arg[1].kind = "tx" => last.res.err = "Ctor" )

(* ------------------ instances built from any State -------------------- *)

\* the values of State that From<State> can wrap: NoOp without a
\* skeleton, and every role around a skeleton
AllStates ==
    {St("NoOp", None)} \cup {St(r, Some(i)) : r \in Roles, i \in ImportInners}

\* PyPSKT::from(state)
InitFrom ==
    \E s \in AllStates :
        /\ state = FromState(s)
        /\ last = [op |-> "from", arg |-> <<s>>, pre |-> FromState(s), res |-> Ok(None)]
        /\ frozen = [inputs |-> None, outputs |-> None]
        /\ th = NoThreads
        /\ handles = NoHandles
        /\ path = NoPath

\* the role transitions and the role getter
NextFrom ==
    \/ Creator \/ ToConstructor \/ ToUpdater \/ ToSigner \/ ToCombiner
    \/ ToFinalizer \/ ToExtractor \/ GetRole

SpecFrom == InitFrom /\ [][NextFrom]_vars

\* the slot held NoOp before the last operation; with or without skeleton
pre_noop(with_skeleton) ==
    /\ is_some(last.pre.value)
    /\ role_of(last.pre) = "NoOp"
    /\ is_some(unwrap(last.pre.value).inner) = with_skeleton

\* C18: creator() on a NoOp that holds a skeleton fails with
\* CreateNotAllowed and does not leave the instance in role Creator;
\* creator() on a NoOp without skeleton succeeds and leaves a Creator
\* with the default skeleton.
C18_CreatorOnNoOp ==
    last.op = "creator"
    => /\ pre_noop(TRUE)
            => /\ last.res = Err("CreateNotAllowed", "")
               /\ IF is_none(state.value) THEN TRUE ELSE role_of(state) # "Creator"
       /\ pre_noop(FALSE)
            => /\ last.res.kind = "ok"
               /\ state.value = Some(St("Creator", Some(DefaultInner)))

C18_Witness ==
    /\ last.op = "creator"
    /\ pre_noop(TRUE)
    /\ last.res = Err("CreateNotAllowed", "")

\* C19: every to_* transition requested on a NoOp without skeleton
\* fails with NotInitialized.
C19_NotInitialized ==
    (last.op \in TransitionOps \ {"creator"} /\ pre_noop(FALSE))
    => last.res = Err("NotInitialized", "")

C19_Witness ==
    /\ last.op = "to_extractor"
    /\ pre_noop(FALSE)
    /\ last.res = Err("NotInitialized", "")

(* --------------------------- transaction id --------------------------- *)

\* what can be attached to an input without touching the fields the id
\* is computed from
SigChoices ==
    [partial_sigs : SUBSET {1}, final_script_sig : {None, Some(<<65, 1>>)}]

\* the skeletons that agree with inner on version, inputs (outpoint and
\* sequence), outputs and lock time, whatever signatures they carry and
\* whatever their modifiable flags are
SigVariants(inner) ==
    { [inner EXCEPT
         !.inputs = [i \in 1..Len(inner.inputs) |->
                       [inner.inputs[i] EXCEPT !.partial_sigs = c[i].partial_sigs,
                                               !.final_script_sig = c[i].final_script_sig]],
         !.inputs_modifiable = f[1],
         !.outputs_modifiable = f[2]]
        : c \in [1..Len(inner.inputs) -> SigChoices], f \in BOOLEAN \X BOOLEAN }

\* C20: the id calculate_id returns for a Signer is the id it returns
\* for every other Signer whose skeleton agrees on version, inputs,
\* outputs and lock time, with or without partial signatures attached.
C20_IdIgnoresSignatures ==
    ( /\ last.op = "calculate_id"
      /\ is_some(last.pre.value)
      /\ role_of(last.pre) = "Signer" )
    => /\ last.res.kind = "ok"
       /\ \A j \in SigVariants(inner_of(last.pre)) :
             calculate_id(FromState(St("Signer", Some(j)))).res = last.res

C20_Witness ==
    /\ last.op = "calculate_id"
    /\ last.res.kind = "ok"
    /\ is_some(last.pre.value)
    /\ role_of(last.pre) = "Signer"
    /\ \E i \in 1..Len(inputs_of(last.pre)) : inputs_of(last.pre)[i].partial_sigs # {}

(* ------------------------- terminal role ------------------------------ *)

\* the slot held the given role before the last operation
pre_role(role) == is_some(last.pre.value) /\ role_of(last.pre) = role

\* C21: on an instance in role Extractor no transition and no role-scoped
\* mutating operation succeeds, and no operation whatever leaves the
\* instance in another role or with another skeleton.
C21_ExtractorTerminal ==
    pre_role("Extractor")
    => /\ last.op \in MutatingOps => last.res.kind # "ok"
       /\ IF is_none(state.value) THEN TRUE ELSE state.value = last.pre.value

C21_Witness ==
    /\ pre_role("Extractor")
    /\ last.op = "to_combiner"
    /\ last.res = Err("State", "Extractor")

(* ------------------------ mass as an estimate ------------------------- *)

\* the unlocking scripts of real standard signatures: one script of 65
\* bytes per input, the length the literal of the stub callback names
standard_sigs(inner) == [i \in 1..Len(inner.inputs) |-> [k \in 1..65 |-> 0]]

\* the mass of the skeleton finalized with real standard signatures
standard_mass(inner, network_type) ==
    tx_mass(finalize_sync(inner, standard_sigs(inner)).inner, network_type)

\* C22: the mass calculate_mass returns comes from one placeholder
\* script per input, each as long as a standard signature, and is at
\* least the mass of the same skeleton finalized with real standard
\* signatures.
C22_MassIsUpperBound ==
    (last.op = "calculate_mass" /\ last.res.kind = "ok")
    => LET inner == inner_of(last.pre)
       IN  /\ Len(stub_sigs(inner)) = Len(inner.inputs)
           /\ \A i \in 1..Len(inner.inputs) :
                 Len(stub_sigs(inner)[i]) = Len(standard_sigs(inner)[i])
           /\ unwrap(last.res.value) >= standard_mass(inner, last.arg[1])

(* -------------------- errors as Python exceptions --------------------- *)

\* the kinds of Error that From<PyPsktError> for PyErr names
ErrorKinds ==
    {"Custom", "State", "ExpectedState", "Ctor", "InvalidPayload",
     "TxNotFinalized", "CreateNotAllowed", "NotInitialized",
     "ConsensusClient", "Pskt"}

\* a kind that falls to the `_` arm
UnhandledKind == "Unhandled"

\* a conversion that reports a constructor error as a custom error
into_pyerr_ctor_as_custom(kind) ==
    CASE kind = "Custom"           -> "PsktCustomError"
      [] kind = "State"            -> "PsktStateError"
      [] kind = "ExpectedState"    -> "PsktExpectedStateError"
      [] kind = "Ctor"             -> "PsktCustomError"
      [] kind = "InvalidPayload"   -> "PsktInvalidPayloadError"
      [] kind = "TxNotFinalized"   -> "PsktTxNotFinalizedError"
      [] kind = "CreateNotAllowed" -> "PsktCreateNotAllowedError"
      [] kind = "NotInitialized"   -> "PsktNotInitializedError"
      [] kind = "ConsensusClient"  -> "PsktConsensusClientError"
      [] kind = "Pskt"             -> "PsktError"
      [] OTHER                     -> "Exception"

\* From<PyPsktError> for PyErr: the Python exception type of each kind
into_pyerr(kind) ==
    CASE kind = "Custom"           -> "PsktCustomError"
      [] kind = "State"            -> "PsktStateError"
      [] kind = "ExpectedState"    -> "PsktExpectedStateError"
      [] kind = "Ctor"             -> "PsktCtorError"
      [] kind = "InvalidPayload"   -> "PsktInvalidPayloadError"
      [] kind = "TxNotFinalized"   -> "PsktTxNotFinalizedError"
      [] kind = "CreateNotAllowed" -> "PsktCreateNotAllowedError"
      [] kind = "NotInitialized"   -> "PsktNotInitializedError"
      [] kind = "ConsensusClient"  -> "PsktConsensusClientError"
      [] kind = "Pskt"             -> "PsktError"
      [] OTHER                     -> "Exception"

\* two errors about to be raised
InitErr ==
    \E a, b \in ErrorKinds \cup {UnhandledKind} :
        /\ state = NoInstance
        /\ last = [op |-> "error", arg |-> <<a, b>>, pre |-> NoInstance, res |-> Ok(None)]
        /\ frozen = [inputs |-> None, outputs |-> None]
        /\ th = NoThreads
        /\ handles = NoHandles
        /\ path = NoPath

\* both are converted into the exception the caller sees
IntoPyErr ==
    /\ last.op = "error"
    /\ last' = [last EXCEPT !.op = "into_pyerr",
                            !.res = Ok(Some(<<into_pyerr(last.arg[1]), into_pyerr(last.arg[2])>>))]
    /\ UNCHANGED <<state, frozen, th, handles, path>>

NextErr == IntoPyErr

SpecErr == InitErr /\ [][NextErr]_vars

\* C23: two different kinds among Custom, State, ExpectedState, Ctor,
\* InvalidPayload, TxNotFinalized, CreateNotAllowed, NotInitialized,
\* ConsensusClient and Pskt are never raised as the same exception type.
C23_ExceptionTypesDistinct ==
    ( /\ last.op = "into_pyerr"
      /\ last.arg[1] \in ErrorKinds
      /\ last.arg[2] \in ErrorKinds
      /\ last.arg[1] # last.arg[2] )
    => unwrap(last.res.value)[1] # unwrap(last.res.value)[2]

C23_Witness ==
    /\ last.op = "into_pyerr"
    /\ last.arg = <<"Ctor", "Custom">>
    /\ unwrap(last.res.value) = <<"PsktCtorError", "PsktCustomError">>

(* --------------------------- frame effects ---------------------------- *)

C25_MutatorKeepsRole ==
    (last.op \in RoleScopedOps \ {"calculate_id"} /\ last.res.kind = "ok")
    => ( /\ pre_role(RequiredRole(last.op))
         /\ is_some(state.value)
         /\ role_of(state) = RequiredRole(last.op) )

C25_Witness ==
    /\ last.op = "no_more_outputs"
    /\ last.res.kind = "ok"
    /\ pre_role("Constructor")
    /\ role_of(state) = "Constructor"


C27_InputWithRedeemScript ==
    ( /\ last.op = "input_and_redeem_script"
      /\ pre_role("Constructor")
      /\ hex_decode(last.arg[2]).ok )
    => LET r == input(last.pre, last.arg[1])
       IN  IF r.res.kind = "ok"
           THEN /\ last.res.kind = "ok"
                /\ state.value =
                     Some(with_inner(unwrap(r.m.value),
                            [inner_of(r.m) EXCEPT
                               !.inputs[Len(inner_of(r.m).inputs)].redeem_script
                                   = Some(hex_decode(last.arg[2]).bytes)]))
           ELSE last.res = r.res

C27_Witness ==
    /\ last.op = "input_and_redeem_script"
    /\ pre_role("Constructor")
    /\ last.res.kind = "ok"
    /\ Len(inputs_of(last.pre)) = 1
    /\ is_none(inputs_of(state)[1].redeem_script)
    /\ inputs_of(state)[2].redeem_script = Some(<<222, 173, 190, 239>>)

(* ------------------------------ handles ------------------------------- *)

\* the allocations handles can point at: 1 is the receiver's slot
heap == <<state, handles.slot2>>

\* a copy that gets a slot of its own
arc_clone_deep(id, h) == [id |-> 2, heap |-> [h EXCEPT ![2] = h[id]]]

\* #[derive(Clone)] on PyPSKT { state: Arc<Mutex<..>> }: the clone points
\* at the allocation of the original
arc_clone(id, h) == [id |-> id, heap |-> h]

HandleNames == {"h1", "h2"}

\* the slot a handle points at; h2 exists once an operation returned it
has_handle(h) == IF h = "h1" THEN TRUE ELSE is_some(handles.h2)
slot_id(h) == IF h = "h1" THEN 1 ELSE unwrap(handles.h2)

\* a transition called through handle h: take, match and replace on the
\* slot of h; replace() returns Ok(self.clone())
Via(h, op) ==
    /\ ThreadsIdle
    /\ has_handle(h)
    /\ LET id == slot_id(h)
           out == transition(heap[id], op)
           after == [heap EXCEPT ![id] = out.m]
           c == arc_clone(id, after)
       IN  /\ last' = [op |-> op, arg |-> <<h>>, pre |-> heap[id], res |-> out.res]
           /\ IF out.res.kind = "ok"
              THEN /\ state' = c.heap[1]
                   /\ handles' = [h2 |-> Some(c.id), slot2 |-> c.heap[2]]
              ELSE /\ state' = after[1]
                   /\ handles' = [handles EXCEPT !.slot2 = after[2]]
    /\ UNCHANGED <<frozen, th, path>>

\* the role getter called through handle h
RoleVia(h) ==
    /\ ThreadsIdle
    /\ has_handle(h)
    /\ LET id == slot_id(h)
           out == get_role(heap[id])
           after == [heap EXCEPT ![id] = out.m]
       IN  /\ last' = [op |-> "role", arg |-> <<h>>, pre |-> heap[id], res |-> out.res]
           /\ state' = after[1]
           /\ handles' = [handles EXCEPT !.slot2 = after[2]]
    /\ UNCHANGED <<frozen, th, path>>

NextHandles ==
    \/ \E h \in HandleNames, op \in TransitionOps : Via(h, op)
    \/ \E h \in HandleNames : RoleVia(h)

SpecHandles == Init /\ [][NextHandles]_vars

\* C28: the handle a successful operation returned reads the same role
\* and the same payload as the receiver, in every later state and
\* whichever of the two handles the later operations went through.
C28_HandlesShareSlot ==
    is_some(handles.h2)
    => /\ get_role(heap[slot_id("h2")]).res = get_role(heap[slot_id("h1")]).res
       /\ get_payload(heap[slot_id("h2")]).res = get_payload(heap[slot_id("h1")]).res

C28_Witness ==
    /\ last.op = "to_signer"
    /\ last.arg = <<"h2">>
    /\ last.res.kind = "ok"
    /\ get_role(heap[slot_id("h1")]).res = Ok(Some("Signer"))

(* ------------------------ calculate_mass by role ---------------------- *)

\* C29: calculate_mass returns a mass only on a Combiner or on a NoOp
\* that holds a skeleton; on a Creator, Constructor, Updater, Signer,
\* Finalizer or Extractor it fails with the wrong-state error of
\* to_finalizer, whatever redeem scripts the inputs carry.
C29_MassOnlyFromCombinerOrNoOp ==
    (last.op = "calculate_mass" /\ is_some(last.pre.value))
    => /\ last.res.kind = "ok"
            => /\ role_of(last.pre) \in {"Combiner", "NoOp"}
               /\ is_some(unwrap(last.pre.value).inner)
       /\ role_of(last.pre) \notin {"Combiner", "NoOp"}
            => /\ last.res = ErrorState(unwrap(last.pre.value))
               /\ last.res = to_finalizer(last.pre).res

C29_Witness ==
    /\ last.op = "calculate_mass"
    /\ pre_role("Constructor")
    /\ has_redeem_script(inner_of(last.pre))
    /\ last.res = Err("State", "Constructor")

(* --------------------------- the empty slot --------------------------- *)

\* the slot holds no state: a failed operation left it empty, or a later
\* call panicked on it and poisoned the mutex
Dead(m) == m.poisoned \/ is_none(m.value)

\* C30 as stated: once the slot is empty it stays empty and every later
\* operation or query panics.
C30_EveryLaterCallPanics ==
    (last.op # "new" /\ Dead(last.pre))
    => /\ Dead(state)
       /\ last.res = Panic

\* C30: once the slot is empty it stays empty, and every later operation
\* or query panics, except input_and_redeem_script called with an input
\* that does not convert or a hex string that does not decode, which
\* returns its own error before the slot is looked at.
C30_LaterCallsPanicUnlessRejectedEarly ==
    (last.op # "new" /\ Dead(last.pre))
    => /\ Dead(state)
       /\ IF ValidArguments
          THEN last.res = Panic
          ELSE last.res.kind = "err" /\ last.res.err \in {"Pskt", "Custom"}

C30_Witness ==
    /\ last.op = "role"
    /\ is_none(last.pre.value)
    /\ ~last.pre.poisoned
    /\ last.res = Panic
    /\ state.poisoned

(* ---------------------- reachable roles and order --------------------- *)

\* C31: from new() on, no instance is ever a NoOp without skeleton;
\* creator() never succeeds and no operation returns NotInitialized.
C31_NoOpAlwaysHasSkeleton ==
    /\ is_some(state.value)
            => ~(role_of(state) = "NoOp" /\ is_none(unwrap(state.value).inner))
    /\ (last.op \notin {"start", "new"} /\ is_some(state.value) /\ role_of(state) = "NoOp")
            => pre_role("NoOp")
    /\ last.op = "creator" => last.res.kind # "ok"
    /\ last.res.err # "NotInitialized"

C31_Witness ==
    /\ last.op = "creator"
    /\ pre_role("Creator")
    /\ last.res = Err("State", "Creator")


\* the place of a role in Creator < Constructor < ... < Extractor; NoOp,
\* the import state, stands before them all
RoleRank(role) ==
    CASE role = "NoOp"        -> 0
      [] role = "Creator"     -> 1
      [] role = "Constructor" -> 2
      [] role = "Updater"     -> 3
      [] role = "Signer"      -> 4
      [] role = "Combiner"    -> 5
      [] role = "Finalizer"   -> 6
      [] role = "Extractor"   -> 7

\* C32: no operation lowers the role in the order Creator < .. <
\* Extractor, except to_signer on a Combiner; a Signer or later role is
\* never followed by Creator, Constructor or Updater, a Finalizer never
\* by Signer or Combiner, and no operation brings an instance to NoOp.
C32_RoleOrder ==
    (last.op # "new" /\ is_some(last.pre.value) /\ is_some(state.value))
    => LET before == role_of(last.pre)
           after == role_of(state)
       IN  /\ RoleRank(after) >= RoleRank(before)
                \/ (before = "Combiner" /\ after = "Signer" /\ last.op = "to_signer")
           /\ RoleRank(before) >= RoleRank("Signer") => RoleRank(after) >= RoleRank("Signer")
           /\ RoleRank(before) >= RoleRank("Finalizer") => RoleRank(after) >= RoleRank("Finalizer")
           /\ after = "NoOp" => before = "NoOp"

C32_Witness ==
    /\ last.op = "to_signer"
    /\ last.res.kind = "ok"
    /\ pre_role("Combiner")
    /\ role_of(state) = "Signer"

(* ------------------ the history of a fresh instance ------------------- *)

\* the path after an operation left the slot as m: a role is appended
\* the first time the instance is in it
entered(p, m) ==
    IF is_none(m.value) THEN p
    ELSE IF \E i \in 1..Len(p) : p[i] = role_of(m) THEN p
    ELSE Append(p, role_of(m))

\* PSKT(): an instance created with no payload
InitFresh ==
    /\ state = new(NonePayload).m
    /\ last = [op |-> "new", arg |-> <<NonePayload>>, pre |-> new(NonePayload).m,
               res |-> new(NonePayload).res]
    /\ frozen = [inputs |-> None, outputs |-> None]
    /\ th = NoThreads
    /\ handles = NoHandles
    /\ path = entered(NoPath, new(NonePayload).m)

\* an operation on the fresh instance, with the path kept
FreshCall(op, arg, out) ==
    /\ ThreadsIdle
    /\ state' = out.m
    /\ last' = [op |-> op, arg |-> arg, pre |-> state, res |-> out.res]
    /\ path' = entered(path, out.m)
    /\ UNCHANGED <<frozen, th, handles>>

FreshTransition == \E op \in TransitionOps : FreshCall(op, <<>>, transition(state, op))
FreshInput ==
    \E x \in InputArgs : CanGrowInputs /\ FreshCall("input", <<x>>, input(state, x))
FreshOutput ==
    \E y \in OutputArgs : CanGrowOutputs /\ FreshCall("output", <<y>>, output(state, y))
FreshCalculateMass ==
    \E n \in Networks : FreshCall("calculate_mass", <<n>>, calculate_mass(state, n))

NextFresh == FreshTransition \/ FreshInput \/ FreshOutput \/ FreshCalculateMass

SpecFresh == InitFresh /\ [][NextFresh]_vars

\* the position of a role on the path, 0 when it was never entered
first_entry(role) ==
    IF \E i \in 1..Len(path) : path[i] = role
    THEN CHOOSE i \in 1..Len(path) : path[i] = role
    ELSE 0

QueryOps == {"role", "payload", "serialize", "calculate_id"}

\* C34: role, payload, serialize and calculate_id leave the role and the
\* skeleton as they were, whether they return a value or an error; on an
\* instance that holds a state they do not panic, and calculate_id
\* outside Signer returns ExpectedState("Signer").
C34_QueriesReadOnly ==
    last.op \in QueryOps
    => /\ state.value = last.pre.value
       /\ (is_some(last.pre.value) /\ ~last.pre.poisoned)
            => /\ state = last.pre
               /\ last.res.kind # "panic"
               /\ last.op # "calculate_id" => last.res.kind = "ok"
               /\ last.op = "calculate_id"
                    => IF role_of(last.pre) = "Signer" THEN last.res.kind = "ok"
                       ELSE last.res = Err("ExpectedState", "Signer")

C34_Witness ==
    /\ last.op = "calculate_id"
    /\ pre_role("Updater")
    /\ last.res = Err("ExpectedState", "Signer")
    /\ role_of(state) = "Updater"
    /\ get_role(state).res = Ok(Some("Updater"))

(* ---------------- argument checks of input_and_redeem_script ---------- *)

\* C35: input_and_redeem_script called with an input that has no UTXO
\* entry fails with the conversion error, and called with a convertible
\* input and the string "zz", which is not hex, fails with Custom; this
\* is so in every role, Constructor or not, and the slot is left exactly
\* as it was.
C35_ArgumentsCheckedBeforeRole ==
    ( /\ last.op = "input_and_redeem_script"
      /\ (~last.arg[1].utxo \/ last.arg[2] = "zz") )
    => /\ last.res = IF ~last.arg[1].utxo
                     THEN Err("Pskt", "MissingUtxoEntry")
                     ELSE Err("Custom", "Redeem script is not a hex string")
       /\ state = last.pre

C35_Witness ==
    /\ last.op = "input_and_redeem_script"
    /\ last.arg[1].utxo
    /\ last.arg[2] = "zz"
    /\ pre_role("Updater")
    /\ last.res.err = "Custom"
    /\ role_of(state) = "Updater"

(* ------------------- UtxoContext.mature_range -------------------------- *)
(* src/src/wallet/core/utxo/context.rs                                     *)

\* the mature entries of a context, as UtxoStream yields them: the
\* context keeps them in ascending order of amount
MatureStreams == { [i \in 1..n |-> 10 + i] : n \in 0..MaxMature }

\* StreamExt::skip(n): the stream without its first n items
\* (stream_skip below).
\*
\* a skip that counts positions from one
stream_skip_one_based(s, n) ==
    IF n <= 1 THEN s
    ELSE IF n - 1 >= Len(s) THEN <<>> ELSE SubSeq(s, n, Len(s))

stream_skip(s, n) == IF n >= Len(s) THEN <<>> ELSE SubSeq(s, n + 1, Len(s))

\* StreamExt::take(n): at most the first n items
stream_take(s, n) == IF n >= Len(s) THEN s ELSE SubSeq(s, 1, n)

\* PyUtxoContext::mature_range(from_, to) on a context whose mature
\* entries are `mature`
mature_range(mature, from_, to) ==
    LET total == Len(mature)
    IN  IF from_ > to THEN Err("PyException", "'from_' must be <= 'to'")
        ELSE LET f == IF from_ > total THEN total ELSE from_
                 t == IF to > total THEN total ELSE to
             IN  IF f = t THEN Ok(Some(<<>>))
                 ELSE Ok(Some(stream_take(stream_skip(mature, f), t - f)))

\* a context and the two arguments of a call
InitRange ==
    \E mature \in MatureStreams, from_ \in 0..(MaxMature + 1), to \in 0..(MaxMature + 1) :
        /\ state = [value |-> None, poisoned |-> FALSE]
        /\ last = [op |-> "call", arg |-> <<from_, to>>, pre |-> [mature |-> mature],
                   res |-> Ok(None)]
        /\ frozen = [inputs |-> None, outputs |-> None]
        /\ th = NoThreads
        /\ handles = NoHandles
        /\ path = NoPath

MatureRange ==
    /\ last.op = "call"
    /\ last' = [last EXCEPT !.op = "mature_range",
                            !.res = mature_range(last.pre.mature, last.arg[1], last.arg[2])]
    /\ UNCHANGED <<state, frozen, th, handles, path>>

NextRange == MatureRange

SpecRange == InitRange /\ [][NextRange]_vars

Min(a, b) == IF a < b THEN a ELSE b

\* C36: mature_range(from, to) fails exactly when from > to; otherwise,
\* with n mature entries, it returns the min(to, n) - min(from, n)
\* entries at positions min(from, n) up to but excluding min(to, n) of
\* the stream (counted from 0), in stream order.
C36_MatureRange ==
    last.op = "mature_range"
    => LET mature == last.pre.mature
           n == Len(mature)
           f == Min(last.arg[1], n)
           t == Min(last.arg[2], n)
       IN  /\ (last.res.kind = "err") = (last.arg[1] > last.arg[2])
           /\ last.res.kind # "panic"
           /\ last.res.kind = "ok"
                => /\ Len(unwrap(last.res.value)) = t - f
                   /\ \A k \in 1..(t - f) : unwrap(last.res.value)[k] = mature[f + k]

C36_Witness ==
    /\ last.op = "mature_range"
    /\ Len(last.pre.mature) = 3
    /\ last.arg = <<1, 4>>
    /\ last.res = Ok(Some(<<12, 13>>))

====
